---------------------------- MODULE Spec2Model ----------------------------
(***************************************************************************)
(* A model of Review Board's Bitbucket hosting service                     *)
(* (reviewboard/hostingsvcs/bitbucket.py) and of the review request        *)
(* datagrid's extra state (reviewboard/datagrids/grids.py).                *)
(*                                                                         *)
(* Every public operation is one action.  An action runs the whole method  *)
(* or view: it draws the arguments and the answer of the remote side from  *)
(* small sets, computes what the code computes and leaves a record of the  *)
(* call (arguments, HTTP requests made, collaborators called, result) in   *)
(* the variable "last".  The hosting account and the user's profile live   *)
(* across calls.                                                           *)
(*                                                                         *)
(* Text is modelled as a sequence of tokens (characters, or whole words    *)
(* where the code never looks inside them), so that the substring, prefix, *)
(* slice and quote operations of the code are computed, not assumed.       *)
(* Python's None is the one-token text <<"<None>">>, which no text of the   *)
(* model equals; a dictionary is a function whose DOMAIN is its set of     *)
(* keys.                                                                   *)
(***************************************************************************)
EXTENDS Integers, Sequences, FiniteSets, TLC

VARIABLES
    account,    \* the HostingServiceAccount in memory: username and data
    saved,      \* account.data as last written by account.save()
    profile,    \* the requesting user's Profile: exists, show_closed
    last        \* the last completed call

vars == <<account, saved, profile, last>>

None == <<"<None>">>

(***************************************************************************)
(* Bounds of the model.                                                    *)
(***************************************************************************)
\* The longest list of commits a webhook payload carries.
MaxCommits == 2

\* The longest list of changesets the API answers get_commits with.
MaxChangesets == 2

(***************************************************************************)
(* Python values.                                                          *)
(***************************************************************************)
\* "if x:" for a value that is None or text.
Truthy(x) == x # None /\ x # <<>>

\* "sub in s" for text.
Contains(s, sub) ==
    \E i \in 1..Len(s) :
        /\ i + Len(sub) - 1 <= Len(s)
        /\ SubSeq(s, i, i + Len(sub) - 1) = sub

\* s.startswith(prefix)
StartsWith(s, prefix) ==
    /\ Len(prefix) <= Len(s)
    /\ SubSeq(s, 1, Len(prefix)) = prefix

\* s[:n]
Slice(s, n) == SubSeq(s, 1, IF Len(s) < n THEN Len(s) ELSE n)

\* urllib's quote() of one character: the unreserved characters and "/"
\* stay, a blank becomes %20.
QuoteChar(c) == IF c = " " THEN "%20" ELSE c

\* urllib's quote(s)
quote(s) == [i \in DOMAIN s |-> QuoteChar(s[i])]

\* The outcome of a call: a normal return of a value, or an exception.
Return(v) == [kind |-> "return", value |-> v]

Raise(type, http_code, message) ==
    [kind |-> "raise", type |-> type, http_code |-> http_code,
     message |-> message]

Raised(r) == r.kind = "raise"

(***************************************************************************)
(* The password store (reviewboard.scmtools.crypto_utils).                 *)
(***************************************************************************)
Passwords == {<<"pw1">>, <<"pw2">>}

encrypt_password(password) == <<"aes:">> \o password

Ciphertexts == {encrypt_password(p) : p \in Passwords}

decrypt_password(encrypted) == Tail(encrypted)

(***************************************************************************)
(* The hosting account.                                                    *)
(***************************************************************************)
\* account.data is a dictionary; the only key this service uses is
\* 'password'.  A stored dictionary may lack it, hold None or a ciphertext.
NoData == [k \in {} |-> None]

WithPassword(v) == [k \in {"password"} |-> v]

AccountDatas == {NoData, WithPassword(None)}
                    \cup {WithPassword(c) : c \in Ciphertexts}

AccountUsername == <<"a", "l">>

(***************************************************************************)
(* The Bitbucket side: what one HTTP GET is answered with.                 *)
(***************************************************************************)
\* The text of an error the API reports.
RepositoryGone == <<"Repository", "unavailable">>
ResourceNotFound == <<"Resource", "not", "found">>

ErrorTexts == {RepositoryGone, ResourceNotFound}

\* The body of an HTTP error: plain text (possibly empty), or a JSON object
\* that has no 'error', an 'error' object with no 'message', or an 'error'
\* object with a 'message'.
ErrorBodies ==
    {[form |-> "text", text |-> t] : t \in ErrorTexts \cup {<<>>}}
        \cup {[form |-> "json", error |-> "absent"],
              [form |-> "json", error |-> "nomessage"]}
        \cup {[form |-> "json", error |-> "message", text |-> t] :
                t \in ErrorTexts \cup {<<>>}}

HttpErrorCodes == {401, 403, 404, 500}

\* A successful answer carries a JSON document or something that is not
\* JSON; a failed one is an HTTPError with a status and a body, or a
\* URLError (no HTTP exchange took place).
Responses ==
    {[kind |-> "ok", json |-> j] : j \in BOOLEAN}
        \cup {[kind |-> "HTTPError", code |-> c, body |-> b] :
                c \in HttpErrorCodes, b \in ErrorBodies}
        \cup {[kind |-> "URLError"]}

\* e.read(): the body as the text that came over the wire.
Read(body) ==
    IF body.form = "text" THEN body.text
    ELSE IF body.error = "absent" THEN <<"{", "}">>
    ELSE IF body.error = "nomessage" THEN <<"{", "error", "}">>
    ELSE <<"{", "error", "message">> \o body.text \o <<"}">>


(***************************************************************************)
(* Errors (reviewboard.hostingsvcs.errors, reviewboard.scmtools.errors).   *)
(* An exception's http_code is a set: empty for None, else the one code.   *)
(***************************************************************************)
\* The classes "except HostingServiceError" catches.
IsHostingServiceError(type) ==
    type \in {"HostingServiceError", "AuthorizationError", "RepositoryError",
              "InvalidPlanError"}

InvalidCredentials == <<"Invalid", "Bitbucket", "username", "or", "password">>

UnexpectedHTTP(code) == <<"Unexpected", "HTTP", ToString(code), "error">>

\* Bitbucket._raise_auth_error(message=None)
_raise_auth_error(message) ==
    Raise("AuthorizationError", {},
          IF Truthy(message) THEN message ELSE InvalidCredentials)

\* ErrorMessage with the JSON document never looked at.
ErrorMessageRawOnly(body) == Read(body)

\* The message _check_api_error settles on: error.message of a JSON body
\* that has one, else the body as read.
ErrorMessage(body) ==
    IF body.form = "json" /\ body.error = "message"
    THEN body.text
    ELSE Read(body)

\* Bitbucket._check_api_error(e), for an HTTPError with this code and body.
_check_api_error(code, body) ==
    LET message == ErrorMessage(body)
    IN  IF code = 401
        THEN _raise_auth_error(message)
        ELSE IF code = 404
        THEN IF StartsWith(message, <<"Repository">>)
             THEN Raise("HostingServiceError", {code}, message)
             ELSE Raise("FileNotFoundError", {}, <<>>)
        ELSE Raise("HostingServiceError", {code},
                   IF Truthy(message) THEN message ELSE UnexpectedHTTP(code))

(***************************************************************************)
(* API requests.                                                           *)
(***************************************************************************)
\* Bitbucket._build_api_url(url, version='1.0')
_build_api_url(url, version) ==
    <<"https://bitbucket.org/api/">> \o version \o <<"/">> \o url

\* Bitbucket._api_get(url, raw_content) on account acct, the GET being
\* answered with rsp.  Gives the outcome and the requests that went out.
\* The password is looked up and decrypted before the request is sent: an
\* account with no 'password' key raises KeyError, one holding None fails
\* in decrypt_password, and nothing is sent.
_api_get(acct, url, raw_content, rsp) ==
    IF "password" \notin DOMAIN acct.data
    THEN [result |-> Raise("KeyError", {}, <<"password">>), requests |-> <<>>]
    ELSE IF acct.data["password"] = None
    THEN [result |-> Raise("TypeError", {}, <<>>), requests |-> <<>>]
    ELSE
        [requests |->
            <<[url |-> url, username |-> acct.username,
               password |-> decrypt_password(acct.data["password"])]>>,
         result |->
            IF rsp.kind = "ok"
            THEN IF raw_content THEN Return(<<"data">>)
                 ELSE IF rsp.json THEN Return(<<"json">>)
                 ELSE Raise("ValueError", {}, <<>>)
            ELSE IF rsp.kind = "HTTPError"
            THEN _check_api_error(rsp.code, rsp.body)
            ELSE Raise("URLError", {}, <<>>)]

(***************************************************************************)
(* Authorization.                                                          *)
(***************************************************************************)
\* SetPassword with the assignment left out.
SetPasswordNotStored(data, value) == data

\* self.account.data['password'] = value
SetPassword(data, value) ==
    [k \in DOMAIN data \cup {"password"} |->
        IF k = "password" THEN value ELSE data[k]]

\* DelPassword with the del left out.
DelPasswordKept(data) == data

\* del self.account.data['password']
DelPassword(data) == [k \in DOMAIN data \ {"password"} |-> data[k]]

\* is_authorized as "'password' in self.account.data".
is_authorized_key_only(acct) == "password" \in DOMAIN acct.data

\* Bitbucket.is_authorized()
is_authorized(acct) ==
    (IF "password" \in DOMAIN acct.data
     THEN acct.data["password"] ELSE None) # None

\* IsAuthCode as "e.http_code == 401".
IsAuthCode401Only(http_code) == http_code \cap {401} # {}

\* e.http_code in (401, 403)
IsAuthCode(http_code) == http_code \cap {401, 403} # {}

\* Bitbucket.authorize(username, password): the call record and the
\* account and stored data it leaves.  The GET of the 'user' resource is
\* answered with rsp; saveOk tells whether account.save() succeeds.
authorize(acct, store, password, rsp, saveOk) ==
    LET stored == [acct EXCEPT
                     !.data = SetPassword(@, encrypt_password(password))]
        got == _api_get(stored, _build_api_url(<<"user">>, <<"1.0">>), FALSE, rsp)
        dropped == [stored EXCEPT !.data = DelPassword(@)]
        call == [op |-> "authorize", password |-> password, rsp |-> rsp,
                 before |-> acct.data, at_request |-> stored.data,
                 requests |-> got.requests]
    IN  IF ~Raised(got.result)
        THEN IF saveOk
             THEN [account |-> stored, saved |-> stored.data,
                   last |-> call @@
                            [save |-> "saved", result |-> Return(None)]]
             ELSE [account |-> dropped, saved |-> store,
                   last |-> call @@
                            [save |-> "failed",
                             result |-> Raise("DatabaseError", {}, <<>>)]]
        ELSE IF IsHostingServiceError(got.result.type)
        THEN [account |-> dropped, saved |-> store,
              last |-> call @@
                       [save |-> "not called",
                        result |->
                            IF IsAuthCode(got.result.http_code)
                            THEN _raise_auth_error(None)
                            ELSE got.result]]
        ELSE [account |-> dropped, saved |-> store,
              last |-> call @@
                       [save |-> "not called", result |-> got.result]]

(***************************************************************************)
(* The post-receive webhook.                                               *)
(***************************************************************************)
ReviewRequestIds == {<<"1">>, <<"2">>}

ServerUrl == <<"http://rb/">>

\* A commit message either mentions no review request or says
\* "Reviewed at <server url>r/<id>".
ReviewedAt(server_url) == <<"Reviewed", "at">> \o server_url \o <<"r/">>

CommitMessages ==
    {<<"Fix", "typo">>}
        \cup {ReviewedAt(ServerUrl) \o id : id \in ReviewRequestIds}

CommitHash == <<"1", "2", "3", "4", "5", "6", "7", "8", "9">>

\* One commit of a payload, as commit.get() reads it: a key that is absent
\* (or null) reads as None.
Commits ==
    [raw_node : {None, CommitHash},
     message : CommitMessages,
     branch : {None, <<"master">>, <<"dev">>}]

CommitLists == UNION {[1..n -> Commits] : n \in 0..MaxCommits}

\* request.POST: no 'payload' field, one that is not JSON, one that is JSON
\* but no object, or a JSON object with or without a 'commits' list.
Posts ==
    {[kind |-> k, has_commits |-> FALSE, commits |-> <<>>] :
        k \in {"missing", "invalid", "array", "object"}}
        \cup {[kind |-> "object", has_commits |-> TRUE, commits |-> cs] :
                cs \in CommitLists}

\* hook_utils.get_review_request_id: the ID the message refers to, if any.
get_review_request_id(commit_message, server_url, commit_hash, repository) ==
    LET pattern == ReviewedAt(server_url)
        at == {i \in 1..Len(commit_message) :
                /\ i + Len(pattern) <= Len(commit_message)
                /\ SubSeq(commit_message, i, i + Len(pattern) - 1) = pattern}
    IN  IF at = {}
        THEN None
        ELSE LET i == CHOOSE j \in at : \A k \in at : j <= k
             IN  <<commit_message[i + Len(pattern)]>>

\* '%s (%s)' % (branch_name, commit_hash[:7])
CommitEntry(branch_name, commit_hash) ==
    branch_name \o <<" (">> \o Slice(commit_hash, 7) \o <<")">>

EmptyMap == [k \in {} |-> <<>>]

\* AppendUnder as "map[key] = [entry]".
AppendUnderReplacing(map, key, entry) ==
    [k \in DOMAIN map \cup {key} |-> IF k = key THEN <<entry>> ELSE map[k]]

\* review_request_id_to_commits_map[key].append(entry), on a
\* defaultdict(list)
AppendUnder(map, key, entry) ==
    [k \in DOMAIN map \cup {key} |->
        IF k = key
        THEN (IF key \in DOMAIN map THEN map[key] ELSE <<>>) \o <<entry>>
        ELSE map[k]]

\* The loop of _get_review_request_id_to_commits_map over the commits that
\* are left.  acc holds the map so far, the IDs get_review_request_id has
\* given, and the exception that ended the loop, if any.  A commit with a
\* branch and no raw_node fails in commit_hash[:7], after its ID was
\* resolved.
RECURSIVE ScanCommits(_, _, _, _)
ScanCommits(commits, server_url, repository, acc) ==
    IF commits = <<>>
    THEN acc
    ELSE
        LET commit == Head(commits)
            commit_hash == commit.raw_node
            commit_message == commit.message
            branch_name == commit.branch
            review_request_id ==
                get_review_request_id(commit_message, server_url,
                                      commit_hash, repository)
        IN  IF ~Truthy(branch_name)
            THEN ScanCommits(Tail(commits), server_url, repository, acc)
            ELSE IF commit_hash = None
            THEN [acc EXCEPT
                    !.resolved = Append(@, review_request_id),
                    !.error = <<"TypeError">>]
            ELSE ScanCommits(
                    Tail(commits), server_url, repository,
                    [acc EXCEPT
                        !.resolved = Append(@, review_request_id),
                        !.map = AppendUnder(
                            @, review_request_id,
                            CommitEntry(branch_name, commit_hash))])

\* _get_review_request_id_to_commits_map(payload, server_url, repository):
\* the dictionary, or the exception, and the IDs resolved on the way.  A
\* payload that is no JSON object has no get().
_get_review_request_id_to_commits_map(payload, server_url, repository) ==
    IF payload.kind # "object"
    THEN [result |-> Raise("AttributeError", {}, <<>>), resolved |-> <<>>]
    ELSE
        LET done == ScanCommits(payload.commits, server_url, repository,
                                [map |-> EmptyMap, resolved |-> <<>>,
                                 error |-> <<>>])
        IN  [result |-> IF done.error # <<>>
                        THEN Raise(done.error[1], {}, <<>>)
                        ELSE Return(done.map),
             resolved |-> done.resolved]

\* HttpResponseBadRequest as a plain HttpResponse(content).
HttpResponseOkFor(content) == [status |-> 200, content |-> content]

\* django.http.HttpResponseBadRequest(content)
HttpResponseBadRequest(content) == [status |-> 400, content |-> content]

\* django.http.HttpResponse()
HttpResponse == [status |-> 200, content |-> <<>>]

\* post_receive_hook_close_submitted(request, ...), for a POST of the
\* hook's repository.  closes lists the dictionaries
\* close_all_review_requests was called with; mapped holds the outcome of
\* _get_review_request_id_to_commits_map if it was called.
post_receive_hook_close_submitted(post, repository) ==
    LET call == [op |-> "post_receive_hook_close_submitted", post |-> post,
                 requests |-> <<>>]
    IN  IF post.kind = "missing"
        THEN call @@
             [result |-> Return(HttpResponseBadRequest(<<"Missing payload">>)),
              mapped |-> <<>>, resolved |-> <<>>, closes |-> <<>>]
        ELSE IF post.kind = "invalid"
        THEN call @@
             [result |->
                Return(HttpResponseBadRequest(<<"Invalid payload format">>)),
              mapped |-> <<>>, resolved |-> <<>>, closes |-> <<>>]
        ELSE
            LET got == _get_review_request_id_to_commits_map(
                            post, ServerUrl, repository)
            IN  IF Raised(got.result)
                THEN call @@
                     [result |-> got.result, mapped |-> <<got.result>>,
                      resolved |-> got.resolved, closes |-> <<>>]
                ELSE call @@
                     [result |-> Return(HttpResponse),
                      mapped |-> <<got.result>>,
                      resolved |-> got.resolved,
                      closes |-> IF DOMAIN got.result.value # {}
                                 THEN <<got.result.value>>
                                 ELSE <<>>]

(***************************************************************************)
(* Repositories and their plans.                                           *)
(***************************************************************************)
DEFAULT_PLAN == <<"personal">>

Plans == {<<"personal">>, <<"team">>, <<"other-user">>, <<"enterprise">>}

\* Repository names as the forms take them: a plain name, one that holds
\* ".git" and one that is a path.
NamesOf(c) ==
    {<<c>>, <<c, ".", "g", "i", "t", "h", "u", "b">>, <<"x", "/", c>>}

\* The fields of the plan forms, as check_repository's kwargs hold them.
FormDatas ==
    [bitbucket_repo_name : NamesOf("p"),
     bitbucket_team_name : {<<"t", "m">>},
     bitbucket_team_repo_name : NamesOf("t"),
     bitbucket_other_user_username : {<<"o", "u">>},
     bitbucket_other_user_repo_name : NamesOf("o")]

\* A stored repository's extra_data: the fields, and a repository_plan
\* that may be absent (None), empty or any text.
StoredFields ==
    [bitbucket_repo_name |-> <<"m", "y", " ", "r">>,
     bitbucket_team_name |-> <<"t", "m">>,
     bitbucket_team_repo_name |-> <<"t", "r">>,
     bitbucket_other_user_username |-> <<"o", " ", "u">>,
     bitbucket_other_user_repo_name |-> <<"o", "r">>]

Repositories ==
    {[tool |-> t,
      extra_data |-> StoredFields @@ [repository_plan |-> plan]] :
        t \in {"Git", "Mercurial"}, plan \in Plans \cup {None, <<>>}}

\* _get_repository_plan with no default plan.
_get_repository_plan_as_stored(repository) ==
    repository.extra_data.repository_plan

\* Bitbucket._get_repository_plan(repository)
_get_repository_plan(repository) ==
    IF Truthy(repository.extra_data.repository_plan)
    THEN repository.extra_data.repository_plan
    ELSE DEFAULT_PLAN

\* Bitbucket._get_repository_name_raw(plan, extra_data)
_get_repository_name_raw(plan, extra_data) ==
    IF plan = <<"personal">>
    THEN Return(extra_data.bitbucket_repo_name)
    ELSE IF plan = <<"team">>
    THEN Return(extra_data.bitbucket_team_repo_name)
    ELSE IF plan = <<"other-user">>
    THEN Return(extra_data.bitbucket_other_user_repo_name)
    ELSE Raise("InvalidPlanError", {}, plan)

\* Bitbucket._get_repository_owner_raw(plan, extra_data)
_get_repository_owner_raw(acct, plan, extra_data) ==
    IF plan = <<"personal">>
    THEN Return(acct.username)
    ELSE IF plan = <<"team">>
    THEN Return(extra_data.bitbucket_team_name)
    ELSE IF plan = <<"other-user">>
    THEN Return(extra_data.bitbucket_other_user_username)
    ELSE Raise("InvalidPlanError", {}, plan)

\* Bitbucket._get_repository_name(repository)
_get_repository_name(repository) ==
    _get_repository_name_raw(_get_repository_plan(repository),
                             repository.extra_data)

\* Bitbucket._get_repository_owner(repository)
_get_repository_owner(acct, repository) ==
    _get_repository_owner_raw(acct, _get_repository_plan(repository),
                              repository.extra_data)

\* Bitbucket._api_get_repository(username, repo_name)
_api_get_repository(acct, username, repo_name, rsp) ==
    _api_get(acct,
             _build_api_url(<<"repositories/">> \o username \o <<"/">>
                                \o repo_name, <<"1.0">>),
             FALSE, rsp)

NotAPath == <<"Please specify just the name of the repository, not a path.">>
WithoutGit ==
    <<"Please specify just the name of the repository without \".git\".">>
NameNotFound == <<"A repository with this name was not found.">>

\* Bitbucket.check_repository(plan, **kwargs): the outcome and the requests
\* sent.
check_repository(acct, plan, kwargs, rsp) ==
    LET repo_name == _get_repository_name_raw(plan, kwargs)
    IN  IF Raised(repo_name)
        THEN [result |-> repo_name, requests |-> <<>>]
        ELSE IF Contains(repo_name.value, <<"/">>)
        THEN [result |-> Raise("RepositoryError", {}, NotAPath),
              requests |-> <<>>]
        ELSE IF Contains(repo_name.value, <<".", "g", "i", "t">>)
        THEN [result |-> Raise("RepositoryError", {}, WithoutGit),
              requests |-> <<>>]
        ELSE
            LET owner == _get_repository_owner_raw(acct, plan, kwargs)
                got == _api_get_repository(acct, owner.value,
                                           repo_name.value, rsp)
            IN  IF Raised(owner)
                THEN [result |-> owner, requests |-> <<>>]
                ELSE IF ~Raised(got.result)
                THEN [result |-> Return(None), requests |-> got.requests]
                ELSE IF /\ IsHostingServiceError(got.result.type)
                        /\ got.result.message = ResourceNotFound
                THEN [result |-> Raise("RepositoryError", {}, NameNotFound),
                      requests |-> got.requests]
                ELSE got

\* Bitbucket._build_repository_api_url(repository, url, version)
_build_repository_api_url(acct, repository, url, version) ==
    LET username == _get_repository_owner(acct, repository)
        repo_name == _get_repository_name(repository)
    IN  IF Raised(username) THEN username
        ELSE IF Raised(repo_name) THEN repo_name
        ELSE Return(_build_api_url(
                        <<"repositories/">> \o username.value \o <<"/">>
                            \o repo_name.value \o <<"/">> \o url,
                        version))

(***************************************************************************)
(* Fetching files.                                                         *)
(***************************************************************************)
\* SourceRevision with the base commit ID never used.
SourceRevisionIgnoringBase(revision, base_commit_id) == revision

\* The revision _api_get_src asks for: the base commit ID if one is given.
SourceRevision(revision, base_commit_id) ==
    IF Truthy(base_commit_id) THEN base_commit_id ELSE revision

\* Bitbucket._api_get_src(repository, path, revision, base_commit_id)
_api_get_src(acct, repository, path, revision, base_commit_id, rsp) ==
    IF ~Truthy(base_commit_id) /\ repository.tool = "Git"
    THEN [result |-> Raise("FileNotFoundError", {}, <<>>), requests |-> <<>>]
    ELSE
        LET owner == _get_repository_owner(acct, repository)
            name == _get_repository_name(repository)
            url == _build_api_url(
                    <<"repositories/">> \o quote(owner.value) \o <<"/">>
                        \o quote(name.value) \o <<"/raw/">>
                        \o quote(SourceRevision(revision, base_commit_id))
                        \o <<"/">> \o quote(path),
                    <<"1.0">>)
        IN  IF Raised(owner)
            THEN [result |-> owner, requests |-> <<>>]
            ELSE IF Raised(name)
            THEN [result |-> name, requests |-> <<>>]
            ELSE _api_get(acct, url, TRUE, rsp)

\* Bitbucket.get_file(repository, path, revision, base_commit_id)
get_file(acct, repository, path, revision, base_commit_id, rsp) ==
    LET got == _api_get_src(acct, repository, path, revision,
                            base_commit_id, rsp)
    IN  IF Raised(got.result) /\ got.result.type \in {"URLError", "HTTPError"}
        THEN [got EXCEPT !.result = Raise("FileNotFoundError", {}, <<>>)]
        ELSE got

\* Bitbucket.get_file_exists(repository, path, revision, base_commit_id)
get_file_exists(acct, repository, path, revision, base_commit_id, rsp) ==
    LET got == _api_get_src(acct, repository, path, revision,
                            base_commit_id, rsp)
    IN  IF ~Raised(got.result)
        THEN [got EXCEPT !.result = Return(TRUE)]
        ELSE IF got.result.type \in {"URLError", "HTTPError",
                                     "FileNotFoundError"}
        THEN [got EXCEPT !.result = Return(FALSE)]
        ELSE got

Paths == {<<"s", "r", "c", "/", "a", " ", "b">>}
Revisions == {<<"r", " ", "1">>}
BaseCommitIds == {None, <<>>, <<"b", " ", "2">>}

(***************************************************************************)
(* Listing commits.                                                        *)
(***************************************************************************)
\* A changeset of the API's answer.  The first has no parent, the second
\* one and the third, a merge, two.
Timestamp == <<"2013-06-25", " ", "21:41:09+00:00">>

Changesets ==
    {[author |-> <<"ann">>, raw_node |-> <<"c1">>, utctimestamp |-> Timestamp,
      message |-> <<"first">>, parents |-> <<>>],
     [author |-> <<"bob">>, raw_node |-> <<"c2">>, utctimestamp |-> Timestamp,
      message |-> <<"second">>, parents |-> << <<"c1">> >>],
     [author |-> <<"ann">>, raw_node |-> <<"c3">>, utctimestamp |-> Timestamp,
      message |-> <<"merge">>, parents |-> << <<"c2">>, <<"c1">> >>]}

ChangesetLists == UNION {[1..n -> Changesets] : n \in 0..MaxChangesets}

\* What the GET of get_commits is answered with: a document holding
\* 'changesets', something that is not JSON, or a failure.
ChangesetResponses ==
    {[kind |-> "ok", json |-> TRUE, changesets |-> l] : l \in ChangesetLists}
        \cup {r \in Responses : r.kind # "ok" \/ ~r.json}

\* Bitbucket._parse_timestamp(timestamp): timestamp.replace(' ', 'T')
_parse_timestamp(timestamp) ==
    [i \in DOMAIN timestamp |->
        IF timestamp[i] = " " THEN "T" ELSE timestamp[i]]

\* Commit(author_name, id, date, message), followed by the assignment of
\* commit.parent when the changeset has parents.  The field parent holds
\* the values assigned to it: none, or the one.
CommitOf(changeset) ==
    [author_name |-> changeset.author,
     id |-> changeset.raw_node,
     date |-> _parse_timestamp(changeset.utctimestamp),
     message |-> changeset.message,
     parent |-> IF changeset.parents # <<>>
                THEN <<changeset.parents[1]>>
                ELSE <<>>]

\* reversed(l) with the order kept.
NotReversed(l) == l

\* reversed(l)
Reversed(l) == [i \in DOMAIN l |-> l[Len(l) + 1 - i]]

\* Bitbucket.get_commits(repository, branch, start); the document that
\* _api_get parsed is the one of rsp.
get_commits(acct, repository, branch, start, rsp) ==
    LET base == _build_repository_api_url(acct, repository,
                                          <<"changesets/?limit=20">>,
                                          <<"1.0">>)
        from == IF Truthy(start) THEN start ELSE branch
        url == IF Truthy(from)
               THEN base.value \o <<"&start=">> \o from
               ELSE base.value
        got == _api_get(acct, url, FALSE, rsp)
    IN  IF Raised(base)
        THEN [result |-> base, requests |-> <<>>]
        ELSE IF Raised(got.result)
        THEN got
        ELSE
            LET changesets == Reversed(rsp.changesets)
            IN  [result |-> Return([i \in DOMAIN changesets |->
                                        CommitOf(changesets[i])]),
                 requests |-> got.requests]

Branches == {None, <<"dev">>}
Starts == {None, <<>>, <<"c2">>}

(***************************************************************************)
(* The review request datagrid (reviewboard/datagrids/grids.py).           *)
(***************************************************************************)
Digits == <<"0", "1", "2", "3", "4", "5", "6", "7", "8", "9">>

IsDigit(c) == \E i \in DOMAIN Digits : Digits[i] = c

DigitValue(c) == (CHOOSE i \in DOMAIN Digits : Digits[i] = c) - 1

\* int(s) succeeds on a non-empty run of digits; anything else in the
\* model's query strings is a ValueError.
IsInteger(s) == s # <<>> /\ \A i \in DOMAIN s : IsDigit(s[i])

RECURSIVE IntegerValue(_)
IntegerValue(s) ==
    IF s = <<>>
    THEN 0
    ELSE 10 * IntegerValue(SubSeq(s, 1, Len(s) - 1)) + DigitValue(s[Len(s)])

\* The values a query string gives a parameter.
QueryValues == {<<"0">>, <<"1">>, <<"0", "0">>, <<"1", "0">>, <<"x">>, <<>>}

QueryKeys == {"show-closed", "show_closed"}

\* request.GET
Queries == UNION {[keys -> QueryValues] : keys \in SUBSET QueryKeys}

\* IsNonZero as "== 1".
IsOne(n) == n = 1

\* int(...) != 0
IsNonZero(n) == n # 0

\* ReviewRequestDataGrid.load_extra_state(profile) on a grid fresh from
\* __init__ (show_closed is True): the grid's show_closed, the filters put
\* on the queryset, the profile's show_closed afterwards and the value
\* returned.  prof.exists is False for "profile is None".
load_extra_state(prof, GET) ==
    LET initial == IF prof.exists THEN prof.show_closed ELSE TRUE
        show_closed ==
            IF "show-closed" \in DOMAIN GET
            THEN IF IsInteger(GET["show-closed"])
                 THEN IsNonZero(IntegerValue(GET["show-closed"]))
                 ELSE initial
            ELSE IsNonZero(IF initial THEN 1 ELSE 0)
        changed == prof.exists /\ show_closed # prof.show_closed
    IN  [show_closed |-> show_closed,
         filters |-> (IF show_closed THEN <<>> ELSE <<"status=P">>)
                        \o <<"local_site">>,
         profile |-> IF changed
                     THEN [prof EXCEPT !.show_closed = show_closed]
                     ELSE prof,
         result |-> Return(changed)]

(***************************************************************************)
(* The state machine.                                                      *)
(***************************************************************************)
\* No call is in progress.
NoCall == [op |-> "none", requests |-> <<>>, result |-> Return(None)]

Idle == last.op = "none"

Init ==
    /\ \E d \in AccountDatas :
        /\ account = [username |-> AccountUsername, data |-> d]
        /\ saved = d
    /\ profile \in {[exists |-> FALSE, show_closed |-> TRUE]}
                     \cup {[exists |-> TRUE, show_closed |-> b] :
                             b \in BOOLEAN}
    /\ last = NoCall

Authorize ==
    /\ Idle
    /\ \E password \in Passwords, rsp \in Responses, saveOk \in BOOLEAN :
            LET out == authorize(account, saved, password, rsp, saveOk)
            IN  /\ account' = out.account
                /\ saved' = out.saved
                /\ last' = out.last
                /\ UNCHANGED profile

IsAuthorized ==
    /\ Idle
    /\ last' = [op |-> "is_authorized", requests |-> <<>>,
                result |-> Return(is_authorized(account))]
    /\ UNCHANGED <<account, saved, profile>>

\* The caller takes the result of the call; the next call can start.
Finish ==
    /\ ~Idle
    /\ last' = NoCall
    /\ UNCHANGED <<account, saved, profile>>

PostReceiveHook ==
    /\ Idle
    /\ \E post \in Posts :
            last' = post_receive_hook_close_submitted(post, <<"repository">>)
    /\ UNCHANGED <<account, saved, profile>>

\* Bitbucket has no repository whose name holds a "/", so a request for
\* one is never answered with a document.
CheckRepository ==
    /\ Idle
    /\ \E plan \in Plans, kwargs \in FormDatas, rsp \in Responses :
        LET repo_name == _get_repository_name_raw(plan, kwargs)
            out == check_repository(account, plan, kwargs, rsp)
        IN  /\ (~Raised(repo_name) /\ Contains(repo_name.value, <<"/">>))
                    => rsp.kind # "ok"
            /\ last' = [op |-> "check_repository", plan |-> plan,
                        kwargs |-> kwargs, rsp |-> rsp,
                        requests |-> out.requests, result |-> out.result]
    /\ UNCHANGED <<account, saved, profile>>

GetFile ==
    /\ Idle
    /\ \E repository \in Repositories, path \in Paths,
          revision \in Revisions, base_commit_id \in BaseCommitIds,
          rsp \in Responses :
        LET out == get_file(account, repository, path, revision,
                            base_commit_id, rsp)
        IN  last' = [op |-> "get_file", repository |-> repository,
                     path |-> path, revision |-> revision,
                     base_commit_id |-> base_commit_id, rsp |-> rsp,
                     requests |-> out.requests, result |-> out.result]
    /\ UNCHANGED <<account, saved, profile>>

GetFileExists ==
    /\ Idle
    /\ \E repository \in Repositories, path \in Paths,
          revision \in Revisions, base_commit_id \in BaseCommitIds,
          rsp \in Responses :
        LET out == get_file_exists(account, repository, path, revision,
                                   base_commit_id, rsp)
        IN  last' = [op |-> "get_file_exists", repository |-> repository,
                     path |-> path, revision |-> revision,
                     base_commit_id |-> base_commit_id, rsp |-> rsp,
                     requests |-> out.requests, result |-> out.result]
    /\ UNCHANGED <<account, saved, profile>>

GetCommits ==
    /\ Idle
    /\ \E repository \in Repositories, branch \in Branches,
          start \in Starts, rsp \in ChangesetResponses :
        LET out == get_commits(account, repository, branch, start, rsp)
        IN  last' = [op |-> "get_commits", repository |-> repository,
                     branch |-> branch, start |-> start, rsp |-> rsp,
                     requests |-> out.requests, result |-> out.result]
    /\ UNCHANGED <<account, saved, profile>>

\* One authenticated GET of the API, as every operation issues it.
ApiGet ==
    /\ Idle
    /\ \E raw_content \in BOOLEAN, rsp \in Responses :
        LET out == _api_get(account, _build_api_url(<<"user">>, <<"1.0">>),
                            raw_content, rsp)
        IN  last' = [op |-> "_api_get", raw_content |-> raw_content,
                     rsp |-> rsp, requests |-> out.requests,
                     result |-> out.result]
    /\ UNCHANGED <<account, saved, profile>>

LoadExtraState ==
    /\ Idle
    /\ \E GET \in Queries :
        LET out == load_extra_state(profile, GET)
        IN  /\ profile' = out.profile
            /\ last' = [op |-> "load_extra_state", GET |-> GET,
                        profile |-> profile, requests |-> <<>>,
                        show_closed |-> out.show_closed,
                        filters |-> out.filters, result |-> out.result]
    /\ UNCHANGED <<account, saved>>

Next ==
    \/ Authorize
    \/ IsAuthorized
    \/ PostReceiveHook
    \/ CheckRepository
    \/ GetFile
    \/ GetFileExists
    \/ GetCommits
    \/ ApiGet
    \/ LoadExtraState
    \/ Finish

Spec == Init /\ [][Next]_vars

(***************************************************************************)
(* Properties of authorization.                                            *)
(***************************************************************************)
UserUrl == <<"https://bitbucket.org/api/", "1.0", "/", "user">>

\* C4: authorize stores the encrypted password in account.data before the
\* verifying GET of the 'user' resource, so exactly one request goes out
\* and it carries the new password; when the request succeeds,
\* account.save() is called on data that still holds the ciphertext, and
\* once authorize has returned the stored account holds it, is_authorized()
\* is True and a later API request sends the new password.
C4_AuthorizeStoresPasswordFirst ==
    last.op = "authorize" =>
        /\ last.at_request = WithPassword(encrypt_password(last.password))
        /\ Len(last.requests) = 1
        /\ last.requests[1].url = UserUrl
        /\ last.requests[1].password = last.password
        /\ (last.rsp.kind = "ok" /\ last.rsp.json) => last.save # "not called"
        /\ last.save = "saved" <=> ~Raised(last.result)
        /\ ~Raised(last.result) =>
            /\ last.rsp.kind = "ok"
            /\ account.data = WithPassword(encrypt_password(last.password))
            /\ saved = account.data
            /\ is_authorized(account)
            /\ \A rsp \in Responses :
                LET later == _api_get(account, UserUrl, FALSE, rsp)
                IN  /\ Len(later.requests) = 1
                    /\ later.requests[1].password = last.password

\* C4's case: an account that held another password is authorized with a
\* new one and the call returns.
C4_Witness ==
    /\ last.op = "authorize"
    /\ ~Raised(last.result)
    /\ "password" \in DOMAIN last.before
    /\ last.before["password"] \in Ciphertexts
    /\ last.before["password"] # encrypt_password(last.password)

\* C5: a call of is_authorized() returns True exactly when account.data has
\* a 'password' entry that is not None, sends no API request and changes
\* neither the account, the stored account nor the profile.
C5_IsAuthorizedIffPassword ==
    [][last'.op = "is_authorized" =>
        /\ last'.result.kind = "return"
        /\ last'.result.value =
            ("password" \in DOMAIN account.data
                /\ account.data["password"] # None)
        /\ last'.requests = <<>>
        /\ UNCHANGED <<account, saved, profile>>]_(last.op)

\* C5's case: is_authorized() has answered False for an account whose
\* 'password' entry is None.
C5_Witness ==
    /\ last.op = "is_authorized"
    /\ "password" \in DOMAIN account.data
    /\ account.data["password"] = None
    /\ last.result.value = FALSE

\* C9: when authorize raises, account.data has no 'password' key on exit
\* and is_authorized() is False, whatever the account held before.
C9_FailedAuthorizeDropsPassword ==
    (last.op = "authorize" /\ Raised(last.result)) =>
        /\ "password" \notin DOMAIN account.data
        /\ ~is_authorized(account)

\* C9's case: authorize has raised on an account that held a stored
\* password before the call, and the password is gone.
C9_Witness ==
    /\ last.op = "authorize"
    /\ Raised(last.result)
    /\ "password" \in DOMAIN last.before
    /\ last.before["password"] \in Ciphertexts
    /\ saved = last.before
    /\ account.data # last.before

\* C10: when the verifying request of authorize is answered with an HTTP
\* error, account.save() is not called and authorize raises:
\* AuthorizationError for status 401 or 403, and for any other status a
\* HostingServiceError that is no AuthorizationError, or FileNotFoundError.
C10_AuthorizeErrorClasses ==
    [][(last'.op = "authorize" /\ last'.rsp.kind = "HTTPError") =>
        /\ Raised(last'.result)
        /\ last'.save = "not called"
        /\ saved' = saved
        /\ last'.rsp.code \in {401, 403} =>
            last'.result.type = "AuthorizationError"
        /\ last'.rsp.code \notin {401, 403} =>
            last'.result.type \in {"HostingServiceError", "FileNotFoundError"}
      ]_(last.op)

\* C10's case: the verifying request was rejected with 403.
C10_Witness ==
    /\ last.op = "authorize"
    /\ last.rsp.kind = "HTTPError"
    /\ last.rsp.code = 403
    /\ last.result.type = "AuthorizationError"

(***************************************************************************)
(* Properties of the webhook.                                              *)
(***************************************************************************)
IsHook == last.op = "post_receive_hook_close_submitted"

\* The commits of the payload that carry a branch.
BranchCommits(commits) ==
    LET HasBranch(c) == Truthy(c.branch) IN SelectSeq(commits, HasBranch)

\* The ID get_review_request_id gives for a commit of the payload.
IdOf(c) ==
    get_review_request_id(c.message, ServerUrl, c.raw_node, <<"repository">>)

\* C1, for the valid JSON payloads that are objects: the handler returns
\* HTTP 200, close_all_review_requests is called at most once, every ID
\* resolved from a commit with a branch is a key of the dictionary it is
\* called with, and it is not called exactly when no commit has a branch.
C1_HookClosesEveryResolvedId ==
    (IsHook /\ last.post.kind = "object") =>
        /\ ~Raised(last.result)
        /\ last.result.value.status = 200
        /\ Len(last.closes) <= 1
        /\ \A i \in DOMAIN last.resolved :
            /\ Len(last.closes) = 1
            /\ last.resolved[i] \in DOMAIN last.closes[1]
        /\ last.closes = <<>> <=> BranchCommits(last.post.commits) = <<>>

C3_BadPayloadIsRejected ==
    [][(last'.op = "post_receive_hook_close_submitted"
            /\ last'.post.kind \in {"missing", "invalid"}) =>
        /\ last'.result.kind = "return"
        /\ last'.result.value.status = 400
        /\ last'.result.value.content =
            IF last'.post.kind = "missing"
            THEN <<"Missing payload">>
            ELSE <<"Invalid payload format">>
        /\ last'.closes = <<>>
        /\ last'.mapped = <<>>
        /\ UNCHANGED <<account, saved, profile>>]_(last.op)

\* C3's case: a POST whose payload is not JSON has been answered.
C3_Witness ==
    /\ IsHook
    /\ last.post.kind = "invalid"
    /\ last.result.value.status = 400

(***************************************************************************)
(* Properties of check_repository.                                         *)
(***************************************************************************)
ValidPlans == {<<"personal">>, <<"team">>, <<"other-user">>}

\* The repository name and owner a plan's form fields give.
FormName(plan, kwargs) ==
    CASE plan = <<"personal">> -> kwargs.bitbucket_repo_name
      [] plan = <<"team">> -> kwargs.bitbucket_team_repo_name
      [] plan = <<"other-user">> -> kwargs.bitbucket_other_user_repo_name

FormOwner(plan, kwargs) ==
    CASE plan = <<"personal">> -> AccountUsername
      [] plan = <<"team">> -> kwargs.bitbucket_team_name
      [] plan = <<"other-user">> -> kwargs.bitbucket_other_user_username

\* Bitbucket answers the request for the repository with its document
\* (the repository was found), or with 404 (it was not).
Found(rsp) == rsp.kind = "ok" /\ rsp.json
NotFound(rsp) == rsp.kind = "HTTPError" /\ rsp.code = 404

HasStoredPassword ==
    /\ "password" \in DOMAIN account.data
    /\ account.data["password"] \in Ciphertexts

\* C6: for a valid plan and an account that holds a password,
\* check_repository sends an API request for the repository,
\* raises if the repository was not found and returns cleanly if it was.
C6_CheckRepositoryAsksBitbucket ==
    (/\ last.op = "check_repository"
     /\ last.plan \in ValidPlans
     /\ HasStoredPassword
     /\ Found(last.rsp) \/ NotFound(last.rsp)) =>
        /\ Len(last.requests) = 1
        /\ NotFound(last.rsp) => Raised(last.result)
        /\ Found(last.rsp) => ~Raised(last.result)

\* What check_repository does, case by case: it first looks at the name the
\* plan's fields give, and a name that holds "/" or ".git" raises
\* RepositoryError with no request sent.  Any other name, on an account that
\* holds a password, is asked for with one GET of
\* repositories/<owner>/<name>; the call raises if the answer is 404 and
\* returns None if the answer is the repository's document.  No call
\* changes the account, the stored account or the profile.
CheckRepositoryValidatesThenAsks ==
    [][(last'.op = "check_repository" /\ last'.plan \in ValidPlans) =>
        LET name == FormName(last'.plan, last'.kwargs)
            owner == FormOwner(last'.plan, last'.kwargs)
        IN  /\ UNCHANGED <<account, saved, profile>>
            /\ IF Contains(name, <<"/">>)
                    \/ Contains(name, <<".", "g", "i", "t">>)
               THEN /\ last'.requests = <<>>
                    /\ Raised(last'.result)
                    /\ last'.result.type = "RepositoryError"
               ELSE HasStoredPassword =>
                    /\ Len(last'.requests) = 1
                    /\ last'.requests[1].url =
                        <<"https://bitbucket.org/api/", "1.0", "/",
                          "repositories/">> \o owner \o <<"/">> \o name
                    /\ NotFound(last'.rsp) => Raised(last'.result)
                    /\ Found(last'.rsp) => last'.result = Return(None)
      ]_(last.op)

(***************************************************************************)
(* Properties of get_file and get_file_exists.                             *)
(***************************************************************************)
IsFileCall == last.op \in {"get_file", "get_file_exists"}

\* s ends with suffix
EndsWith(s, suffix) ==
    /\ Len(suffix) <= Len(s)
    /\ SubSeq(s, Len(s) - Len(suffix) + 1, Len(s)) = suffix

RepositoryPlanIsValid(repository) ==
    ~Truthy(repository.extra_data.repository_plan)
        \/ repository.extra_data.repository_plan \in ValidPlans

\* C7: a file is asked for at the base commit ID when one is given, for
\* Git and Mercurial alike, and at the given revision when none is given
\* and the tool is Mercurial; when none is given and the tool is Git, no
\* request is sent, get_file raises FileNotFoundError and get_file_exists
\* returns False.
C7_BaseCommitIdReplacesRevision ==
    IsFileCall =>
        LET given == last.base_commit_id \notin {None, <<>>}
            git == last.repository.tool = "Git"
            asked == IF given THEN last.base_commit_id ELSE last.revision
        IN  /\ (~given /\ git) =>
                /\ last.requests = <<>>
                /\ last.op = "get_file" =>
                    /\ Raised(last.result)
                    /\ last.result.type = "FileNotFoundError"
                /\ last.op = "get_file_exists" => last.result = Return(FALSE)
            /\ (/\ given \/ ~git
                /\ RepositoryPlanIsValid(last.repository)
                /\ HasStoredPassword) =>
                /\ Len(last.requests) = 1
                /\ EndsWith(last.requests[1].url,
                            <<"/raw/">> \o quote(asked) \o <<"/">>
                                \o quote(last.path))

\* C7's case: a file of a Git repository was asked for at the base commit
\* ID, which differs from the revision.
C7_Witness ==
    /\ last.op = "get_file"
    /\ last.repository.tool = "Git"
    /\ last.base_commit_id \notin {None, <<>>}
    /\ last.base_commit_id # last.revision
    /\ Len(last.requests) = 1
    /\ ~Raised(last.result)

(***************************************************************************)
(* Properties of the datagrid.                                             *)
(***************************************************************************)
IsGridLoad == last.op = "load_extra_state"

HasStatusFilter == \E i \in DOMAIN last.filters : last.filters[i] = "status=P"

\* The integer a query value stands for is zero / is another integer.
IsZero(v) == v \in {<<"0">>, <<"0", "0">>}
IsOtherInteger(v) == v \in {<<"1">>, <<"1", "0">>}

IsFailedApiGet ==
    /\ last.op = "_api_get"
    /\ last.requests # <<>>
    /\ last.rsp.kind = "HTTPError"

\* error.message of a JSON body that has one, else the body as sent.
ReportedMessage(body) ==
    IF body.form = "text" THEN body.text
    ELSE IF body.error = "message" THEN body.text
    ELSE Read(body)

\* The class and http_code of the exception, which C11 states as the code
\* has them.
ErrorClassIsByStatus ==
    LET code == last.rsp.code
        message == ReportedMessage(last.rsp.body)
        e == last.result
    IN  /\ Raised(e)
        /\ code = 401 => e.type = "AuthorizationError"
        /\ (code = 404 /\ StartsWith(message, <<"Repository">>)) =>
                /\ e.type = "HostingServiceError"
                /\ e.http_code = {404}
                /\ e.message = message
        /\ (code = 404 /\ ~StartsWith(message, <<"Repository">>)) =>
                e.type = "FileNotFoundError"
        /\ code \notin {401, 404} =>
                /\ e.type = "HostingServiceError"
                /\ e.http_code = {code}

\* C11 as stated: an HTTP error always ends in an exception whose class
\* follows the status, and for a status other than 401 and 404 the message
\* of the HostingServiceError is error.message of the JSON body when
\* present and the raw body otherwise.
C11_MessageIsFromBody ==
    IsFailedApiGet =>
        /\ ErrorClassIsByStatus
        /\ last.rsp.code \notin {401, 404} =>
                last.result.message = ReportedMessage(last.rsp.body)

\* C11, amended: as above, but an empty message is replaced: by "Unexpected
\* HTTP <status> error ..." for a status other than 401 and 404, and by the
\* invalid-credentials text for 401.
C11_MessageIsFromBodyOrDefault ==
    IsFailedApiGet =>
        LET code == last.rsp.code
            message == ReportedMessage(last.rsp.body)
        IN  /\ ErrorClassIsByStatus
            /\ (code # 404 /\ message # <<>>) =>
                    last.result.message = message
            /\ (code \notin {401, 404} /\ message = <<>>) =>
                    last.result.message = UnexpectedHTTP(code)
            /\ (code = 401 /\ message = <<>>) =>
                    last.result.message = InvalidCredentials

\* C11's case: a 500 whose JSON body carries an empty error.message; the
\* HostingServiceError takes the default message.
C11_Witness ==
    /\ IsFailedApiGet
    /\ last.rsp.code = 500
    /\ last.rsp.body.form = "json"
    /\ last.rsp.body.error = "message"
    /\ last.rsp.body.text = <<>>
    /\ last.result.type = "HostingServiceError"
    /\ last.result.http_code = {500}
    /\ last.result.message = UnexpectedHTTP(500)

(***************************************************************************)
(* Properties of repository URLs and of get_commits.                       *)
(***************************************************************************)
IsGetCommits == last.op = "get_commits"

\* The operations whose URL names a stored repository.
IsRepositoryCall == IsGetCommits \/ IsFileCall

\* The plan a stored repository counts as having.
PlanOf(repository) ==
    IF repository.extra_data.repository_plan \in {None, <<>>}
    THEN <<"personal">>
    ELSE repository.extra_data.repository_plan

\* The owner and the name C12 gives a repository of a valid plan.
OwnerOf(repository) ==
    CASE PlanOf(repository) = <<"personal">> -> AccountUsername
      [] PlanOf(repository) = <<"team">> ->
            repository.extra_data.bitbucket_team_name
      [] PlanOf(repository) = <<"other-user">> ->
            repository.extra_data.bitbucket_other_user_username

NameOf(repository) ==
    CASE PlanOf(repository) = <<"personal">> ->
            repository.extra_data.bitbucket_repo_name
      [] PlanOf(repository) = <<"team">> ->
            repository.extra_data.bitbucket_team_repo_name
      [] PlanOf(repository) = <<"other-user">> ->
            repository.extra_data.bitbucket_other_user_repo_name

ApiRoot == <<"https://bitbucket.org/api/", "1.0", "/">>

\* The call got as far as building its URL: a file call of a Git
\* repository without a base commit ID stops before.
BuildsUrl ==
    \/ IsGetCommits
    \/ /\ IsFileCall
       /\ Truthy(last.base_commit_id) \/ last.repository.tool # "Git"

\* C12: the URL of a call on a stored repository names the owner and the
\* repository its plan gives (the account's username and bitbucket_repo_name
\* for 'personal' and for a missing or empty plan, the team fields for
\* 'team', the other-user fields for 'other-user'), URL-quoted in a file
\* call; with any other plan the call raises InvalidPlanError and sends
\* nothing.
C12_OwnerAndNameFollowPlan ==
    (IsRepositoryCall /\ BuildsUrl) =>
        LET repository == last.repository
            owner == OwnerOf(repository)
            name == NameOf(repository)
        IN  /\ PlanOf(repository) \notin ValidPlans =>
                /\ last.requests = <<>>
                /\ Raised(last.result)
                /\ last.result.type = "InvalidPlanError"
                /\ last.result.message = PlanOf(repository)
            /\ (PlanOf(repository) \in ValidPlans /\ HasStoredPassword) =>
                /\ Len(last.requests) = 1
                /\ IsGetCommits =>
                    StartsWith(last.requests[1].url,
                               ApiRoot \o <<"repositories/">> \o owner
                                   \o <<"/">> \o name \o <<"/">>)
                /\ IsFileCall =>
                    StartsWith(last.requests[1].url,
                               ApiRoot \o <<"repositories/">> \o quote(owner)
                                   \o <<"/">> \o quote(name) \o <<"/raw/">>)

\* C12's case: commits of a repository with no stored plan were asked for
\* under the account's username and bitbucket_repo_name.
C12_Witness ==
    /\ IsGetCommits
    /\ last.repository.extra_data.repository_plan = None
    /\ Len(last.requests) = 1
    /\ StartsWith(last.requests[1].url,
                  ApiRoot \o <<"repositories/">> \o AccountUsername
                      \o <<"/">> \o StoredFields.bitbucket_repo_name
                      \o <<"/">>)

\* "given", of the branch and start arguments: neither None nor empty.
Given(x) == x \notin {None, <<>>}

\* C13: get_commits returns one Commit per changeset, in the reverse of the
\* API's order; a Commit's parent is assigned the first of the changeset's
\* parents if there is one and is not assigned otherwise; the URL ends in
\* &start=<start> when start is given, else in &start=<branch> when branch
\* is given, and has no start parameter when neither is.
C13_CommitsNewestFirst ==
    IsGetCommits =>
        /\ ~Raised(last.result) =>
            LET changesets == last.rsp.changesets
                commits == last.result.value
                n == Len(changesets)
            IN  /\ Len(commits) = n
                /\ \A i \in 1..n :
                    LET changeset == changesets[n + 1 - i]
                    IN  /\ commits[i].id = changeset.raw_node
                        /\ commits[i].message = changeset.message
                        /\ commits[i].author_name = changeset.author
                        /\ changeset.parents # <<>> =>
                                commits[i].parent = <<changeset.parents[1]>>
                        /\ changeset.parents = <<>> =>
                                commits[i].parent = <<>>
        /\ last.requests # <<>> =>
            LET url == last.requests[1].url
            IN  /\ Given(last.start) =>
                    EndsWith(url, <<"changesets/?limit=20", "&start=">>
                                      \o last.start)
                /\ (~Given(last.start) /\ Given(last.branch)) =>
                    EndsWith(url, <<"changesets/?limit=20", "&start=">>
                                      \o last.branch)
                /\ (~Given(last.start) /\ ~Given(last.branch)) =>
                    /\ EndsWith(url, <<"changesets/?limit=20">>)
                    /\ ~Contains(url, <<"&start=">>)

\* C13's case: two changesets, the older one without a parent, came back
\* newest first for a call that gave both a start and a branch.
C13_Witness ==
    /\ IsGetCommits
    /\ ~Raised(last.result)
    /\ Len(last.result.value) = 2
    /\ last.rsp.changesets[1].raw_node = <<"c1">>
    /\ last.rsp.changesets[2].raw_node = <<"c3">>
    /\ last.result.value[1].id = <<"c3">>
    /\ last.result.value[1].parent = << <<"c2">> >>
    /\ last.result.value[2].id = <<"c1">>
    /\ last.result.value[2].parent = <<>>
    /\ last.start = <<"c2">>
    /\ last.branch = <<"dev">>
    /\ EndsWith(last.requests[1].url, <<"&start=", "c2">>)

=============================================================================
